---- MODULE Spec2Model ----
(***************************************************************************)
(* A model of eTunes: the query transaction of src/etunes/__init__.py      *)
(* (task_query, execute_query, return_query_result and the helpers they    *)
(* call) and the album metadata functions of src/etunes.py                 *)
(* (write_data_file, merge_metadata, split_metadata, read_album_metadata,  *)
(* write_album_metadata).                                                  *)
(*                                                                         *)
(* A behaviour is one invocation of the program, started in a state of the *)
(* store that 'etunes init', earlier invocations or the user left; pc is   *)
(* its position.  The files it touches, the process table and the Git      *)
(* repository are the environment.  An I/O call can fail as well as        *)
(* succeed: each outcome is a nondeterministic alternative of the step.    *)
(* ConcSpec runs two invocations side by side on one store.                *)
(*                                                                         *)
(* The work/ directory is taken to be ignored by Git, as 'etunes init'     *)
(* arranges (src/etunes/__init__.py:303-313), so the last-id file never    *)
(* counts as a change of the working tree.                                 *)
(***************************************************************************)
EXTENDS Integers, Sequences, FiniteSets, TLC

VARIABLES
    \* ---- environment: files, processes, Git
    libFile,      \* content of the library file: [kind, opts]
    tmpFile,      \* content of the temporary file of yaml_to_file: [kind, opts]
    lastIdFile,   \* content of work/last-id, or NoFile
    procFile,     \* content of work/process: [kind, pid, ctime]
    procs,        \* the process table: pid -> real create time, or Dead
    head,         \* the library file as recorded in Git's HEAD commit
    gitLog,       \* the messages of the commits, oldest first
    foreignDirty, \* a change of the working tree made outside the program
    albumFile,    \* content of one album metadata file: [kind, data]
    albumTmp,     \* content of its '.tmp' sibling: [kind, data]
    \* ---- the running invocation
    task,         \* what was invoked: "query", "album", or "none" so far
    pc,           \* position in the code
    ret,          \* which call of return_query_result runs: line 640 or 653
    query,        \* the Query being executed
    options,      \* execute_query's options (the loaded library file)
    newOptions,   \* execute_query's new_options
    errors,       \* execute_query's errors list (aliased by response["errors"])
    response,     \* response["partial"], response["options"]
    stdout,       \* the Responses written to standard output, in order
    fatal,        \* the error that aborted the invocation, or NoFatal
    exitCode,     \* main's return value, or Running
    nextId,       \* how many uuid4 values have been drawn
    albumNew,     \* the metadata write_data_file is writing
    \* ---- history, read only by the properties
    lib0,         \* libFile when the current invocation started
    log0,         \* gitLog when the current invocation started
    lastId0,      \* lastIdFile when the current invocation started
    id0,          \* nextId when the current invocation started
    held,         \* every content the last-id file held before its last write
    album0,       \* albumFile when the current invocation started
    errorsAt639,  \* whether errors was non-empty at line 639
    lastIdWrite,  \* outcome of the latest write of the last-id file
    \* ---- the metadata codec (src/etunes.py)
    children,     \* split_metadata's argument: a sequence of mappings
    parent,       \* split_metadata's parent
    newChildren,  \* split_metadata's new_children
    merged,       \* merge_metadata(parent, new_children[i]) for each i
    codecPc,      \* how far the codec has run
    reParent,     \* the parent split_metadata returns for merged
    reChildren,   \* the new_children split_metadata returns for merged
    albumDoc,     \* the document of an album metadata file: [album, songs]
    readBack,     \* what read_album_metadata returns or raises
    \* ---- 'etunes init' (task_init)
    initPath,     \* the kind of path argument task_init is given
    dirExists,    \* whether the library directory exists
    dominating,   \* whether an etunes.yml other than the target is found in
                  \* the library directory or above it
    gitDir,       \* whether a .git is found in the library directory or above
    gitignore,    \* whether a .gitignore exists beside it
    preexisting,  \* task_init's preexisting_library_file, as a boolean
    \* ---- two invocations of 'etunes query' that run at the same time
    execs         \* pid -> the state of that invocation of execute_query

vars == <<libFile, tmpFile, lastIdFile, procFile, procs, head, gitLog,
          foreignDirty, albumFile, albumTmp, task, pc, ret, query, options,
          newOptions, errors, response, stdout, fatal, exitCode, nextId,
          albumNew, lib0, log0, lastId0, id0, held, album0,
          errorsAt639, lastIdWrite, children, parent, newChildren, merged,
          codecPc, reParent, reChildren, albumDoc, readBack, initPath,
          dirExists, dominating, gitDir, gitignore, preexisting, execs>>

envVars == <<libFile, tmpFile, lastIdFile, procFile, procs, head, gitLog,
             foreignDirty, albumFile, albumTmp>>

histVars == <<task, lib0, log0, lastId0, id0, held, album0, errorsAt639,
              lastIdWrite>>

codecVars == <<children, parent, newChildren, merged, codecPc, reParent,
               reChildren, albumDoc, readBack>>

initVars == <<initPath, dirExists, dominating, gitDir, gitignore, preexisting>>

concVars == <<execs>>

\* What a query leaves alone: the codec's and task_init's state, and the
\* state of the invocations that run side by side.
otherVars == <<codecVars, initVars, concVars>>

----------------------------------------------------------------------------
\* Bounds of the model.

\* The longest options list of a query.
MaxOpts == 2

----------------------------------------------------------------------------
\* Constants of the program.

\* DEFAULT_LIBRARY: the recognized option keys and their default values.
DEFAULT_LIBRARY ==
    [k \in {"deduplication-threshold", "media-path", "metadata-path"} |->
        CASE k = "deduplication-threshold" -> "0.75"
          [] k = "media-path" -> "media/{album-artist}/{album}/{title}.{ext}"
          [] OTHER -> "metadata/{album-artist}/{album}.yml"]

\* The default commit message of return_query_result.
UnnamedQuery == "Unnamed query"

\* The tolerance of the create-time comparison, 0.1 s.  Times are counted in
\* units of 0.05 s, so that a difference just below and one exactly at the
\* tolerance are both integers.
CreateTimeEpsilon == 2

----------------------------------------------------------------------------
\* Values.

\* Markers for what is absent.
Absent == "<absent>"
NoFile == "<no file>"
Running == -1
Dead == -1

NoFatal == [reason |-> "none", pid |-> 0]
Fatal(reason) == [reason |-> reason, pid |-> 0]

\* The empty mapping.
EmptyMap == [k \in {} |-> ""]

\* File contents.  kind "map" is a complete YAML mapping of strings; the other
\* kinds are contents file_to_yaml or validate_library_options reject, and
\* "empty" and "partial" are the contents of a file while it is being written.
Map(f) == [kind |-> "map", opts |-> f]
Content(kind) == [kind |-> kind, opts |-> EmptyMap]
NoTmp == Content("none")

\* Error records of a Response.
Err(reason, name, value, file) ==
    [reason |-> reason, name |-> name, value |-> value, file |-> file]

\* The strings float() accepts, among those of the model.
FloatLiterals == {"0.75", "0.5"}

\* The values a query may give to an option.
QueryValues == {"0.5", "abc"}

\* The option names a query may use: the recognized ones and one that is not.
QueryNames == {"deduplication-threshold", "media-path", "bogus-key"}

\* The names a query may ask the value of, without giving one.
ReadNames == {"deduplication-threshold", "bogus-key"}

\* The uuid4 values, in the order they are drawn.
TransactionIds == <<"u1", "u2", "u3", "u4", "u5", "u6", "u7", "u8">>

\* The last-id values a query may carry: none, the empty string, the id the
\* store starts with, and the first id the program generates.
QueryLastIds == {Absent, "", "T0", "u1"}

QueryDescriptions == {Absent, "Set options"}

\* The option requests of a query: a name to read, or a recognized name with
\* a value.  A value makes no difference to a request whose name is not
\* recognized (line 615), so that one comes without; the media path is not
\* decoded (decode_option), so one value stands for all.
Requests ==
    {r \in [name : QueryNames, value : {Absent} \cup QueryValues] :
        CASE r.value = Absent -> r.name \in ReadNames
          [] r.name = "media-path" -> r.value = "abc"
          [] OTHER -> r.name \in DOMAIN DEFAULT_LIBRARY}

SeqsUpTo(S, n) == UNION {[1..m -> S] : m \in 0..n}

\* Schema-valid queries (QUERY_SCHEMA).  hasOptions says whether the query has
\* the key "options"; without it the list is empty.
Queries ==
    {q \in [description : QueryDescriptions,
            lastId : QueryLastIds,
            hasOptions : BOOLEAN,
            options : SeqsUpTo(Requests, MaxOpts)] :
        q.hasOptions \/ q.options = <<>>}

NoQuery ==
    [description |-> Absent, lastId |-> Absent, hasOptions |-> FALSE,
     options |-> <<>>]

NoResponse == [partial |-> FALSE, hasOptions |-> FALSE, options |-> <<>>]

\* Album metadata file contents.
Album(kind, data) == [kind |-> kind, data |-> data]
NoAlbum == Album("none", "")

\* The document of an album metadata file: the value of its key 'album', and
\* the value of its key 'songs' with the kind of YAML node it is, a sequence
\* ("list") or a mapping ("map").
Doc(album, kind, songs) == [album |-> album, kind |-> kind, songs |-> songs]
NoDoc == Doc(EmptyMap, "none", <<>>)

\* What read_album_metadata gives: the exception it raises or "ok", and the
\* metadata of the songs of the Album it returns.
Read(status, songs) == [status |-> status, songs |-> songs]
NoRead == Read("none", <<>>)

\* The only process id of the model.
Pids == {7}

ProcRecord(pid, ctime) == [kind |-> "record", pid |-> pid, ctime |-> ctime]
ProcOther(kind) == [kind |-> kind, pid |-> 0, ctime |-> 0]

Abs(n) == IF n < 0 THEN -n ELSE n

\* The library files a behaviour may start with: the one 'etunes init'
\* writes, hand-edited ones, and ones the loader rejects.
InitLibraries ==
    {Map(DEFAULT_LIBRARY),
     Map("media-path" :> "abc"),
     Map("deduplication-threshold" :> "abc"),
     Content("unreadable"), Content("not-map"), Content("non-string"),
     Content("unknown-key")}

\* The process files and process tables a behaviour may start with: process
\* file and real create time of pid 7 (Dead when there is no such process).
NoLock == <<ProcOther("missing"), Dead>>

InitLocks ==
    {NoLock,
     <<ProcOther("malformed"), Dead>>,
     <<ProcRecord(7, 10), Dead>>,
     <<ProcRecord(7, 10), 10>>,
     <<ProcRecord(7, 11), 10>>,
     <<ProcRecord(7, 12), 10>>}

\* The commits 'etunes init' leaves in a directory that had a .git and a
\* .gitignore (line 328).
InitCommits == <<"Create library.yml with default settings">>

\* The stores a behaviour may start with: every library file and last-id file
\* without a process file; every process file with the library file that
\* 'etunes init' writes; and that library file with a working tree that
\* somebody changed outside the program.
InitStores ==
    {[lib |-> l, lastId |-> i, lock |-> NoLock, dirty |-> FALSE,
      log |-> InitCommits] :
        l \in InitLibraries, i \in {NoFile, "T0"}}
    \cup {[lib |-> Map(DEFAULT_LIBRARY), lastId |-> "T0", lock |-> k,
           dirty |-> FALSE, log |-> InitCommits] : k \in InitLocks}
    \cup {[lib |-> Map(DEFAULT_LIBRARY), lastId |-> "T0", lock |-> NoLock,
           dirty |-> TRUE, log |-> InitCommits]}

----------------------------------------------------------------------------
\* Pure functions of the program.

\* get_option: the value the library file sets, or the default.
GetOption(opts, key) ==
    IF key \in DOMAIN opts THEN opts[key] ELSE DEFAULT_LIBRARY[key]

\* decode_float / decode_option: whether decoding succeeds.  Only the
\* deduplication threshold is decoded, as a floating-point number.
DecodeOk(name, value) ==
    name = "deduplication-threshold" => value \in FloatLiterals

\* validate_library_options and file_to_yaml: the fatal error a library file
\* content raises when it is loaded, or "none".
LoadError(content) ==
    CASE content.kind = "map" -> "none"
      [] content.kind = "not-map" -> "library-not-map"
      [] content.kind = "non-string" -> "library-non-string-value"
      [] content.kind = "unknown-key" -> "library-unexpected-key"
      [] OTHER -> "library-unreadable"

\* d[k] = v
SetKey(d, k, v) == [x \in DOMAIN d \cup {k} |-> IF x = k THEN v ELSE d[x]]

\* Python truthiness of an optional string: None and "" are false.
Truthy(s) == s \notin {Absent, ""}

\* A loop that takes the requests last to first.
RECURSIVE ApplyInReverse(_, _)
ApplyInReverse(opts, reqs) ==
    IF reqs = <<>> THEN opts
    ELSE LET r == reqs[Len(reqs)] IN
         ApplyInReverse(
             IF r.name \in DOMAIN DEFAULT_LIBRARY /\ r.value # Absent
             THEN [x \in DOMAIN opts \cup {r.name} |->
                     IF x = r.name THEN r.value ELSE opts[x]]
             ELSE opts,
             SubSeq(reqs, 1, Len(reqs) - 1))

\* The first loop over query["options"] (lines 611-628): new_options.
RECURSIVE ApplyRequests(_, _)
ApplyRequests(opts, reqs) ==
    IF reqs = <<>> THEN opts
    ELSE LET r == Head(reqs) IN
         ApplyRequests(
             IF r.name \in DOMAIN DEFAULT_LIBRARY /\ r.value # Absent
             THEN SetKey(opts, r.name, r.value) ELSE opts,
             Tail(reqs))

\* The first loop over query["options"]: the errors it appends, in order.
RECURSIVE RequestErrors(_)
RequestErrors(reqs) ==
    IF reqs = <<>> THEN <<>>
    ELSE LET r == Head(reqs) IN
         (IF r.name \in DOMAIN DEFAULT_LIBRARY /\ r.value # Absent
             /\ ~DecodeOk(r.name, r.value)
          THEN <<Err("malformed-option-value", r.name, r.value, "")>>
          ELSE <<>>) \o RequestErrors(Tail(reqs))

\* The first loop over query["options"]: unknown_options.
UnknownOptions(reqs) ==
    {reqs[i].name : i \in {j \in DOMAIN reqs :
                              reqs[j].name \notin DOMAIN DEFAULT_LIBRARY}}

\* Lines 633-638: one unknown-option error per element of unknown_options, in
\* the iteration order of the set.
RECURSIVE UnknownErrors(_)
UnknownErrors(names) ==
    IF names = {} THEN <<>>
    ELSE LET n == CHOOSE x \in names : TRUE IN
         <<Err("unknown-option", n, "", "")>> \o UnknownErrors(names \ {n})

\* Lines 629-631: new_options[name] raises KeyError for a name new_options
\* does not hold.
ResponseKeyError(newOpts, reqs) ==
    \E i \in DOMAIN reqs : reqs[i].name \notin DOMAIN newOpts

\* Lines 629-632: options_response.
OptionsResponse(newOpts, reqs) ==
    [i \in DOMAIN reqs |-> newOpts[reqs[i].name]]

\* Lines 602-608: whether a value of the loaded library fails to decode.
LibraryDecodeFails(opts) ==
    \E k \in DOMAIN opts : ~DecodeOk(k, opts[k])

\* A comparison that takes a difference of exactly the tolerance for a match.
LockHeldInclusive(pf, pt) ==
    /\ pf.kind = "record"
    /\ pf.pid \in DOMAIN pt
    /\ pt[pf.pid] # Dead
    /\ Abs(pf.ctime - pt[pf.pid]) <= CreateTimeEpsilon

\* A check that never finds the process file held.
LockNeverHeld(pf, pt) == FALSE

\* Lines 572-576: the process file names a live process whose real create
\* time is within the tolerance of the recorded one.
LockHeld(pf, pt) ==
    /\ pf.kind = "record"
    /\ pf.pid \in DOMAIN pt
    /\ pt[pf.pid] # Dead
    /\ Abs(pf.ctime - pt[pf.pid]) < CreateTimeEpsilon

\* A response that reports success whatever its errors.
AlwaysSuccess(errs) == TRUE

\* Line 552: success.
Success(errs) == errs = <<>>

\* Line 556: the commit message.
CommitMessage(q) ==
    IF q.description # Absent THEN q.description ELSE UnnamedQuery

\* A commit_working_tree that commits a clean tree too.
AlwaysCommit(optional, clean) == TRUE

\* Line 531: whether commit_working_tree runs 'git commit'.
NeedsCommit(optional, clean) == ~optional \/ ~clean

----------------------------------------------------------------------------
\* Git, as the program uses it.

\* What 'git status' would report: the library file differs from HEAD, or
\* something else was changed outside the program.
WorkingTreeDirty == libFile # head \/ foreignDirty

\* The ways a call of Git can go wrong: io.run raises OSError (no binary), or
\* a command checked by run_and_check exits with a non-zero status.
GitFaults == {"none", "oserror", "nonzero"}

\* is_working_tree_clean (lines 482-515) under a fault: "clean", "dirty", or
\* the error it raises.
IsWorkingTreeClean(dirty, fault) ==
    CASE fault = "oserror" -> "git-not-installed"
      [] dirty -> "dirty"
      [] fault = "nonzero" -> "command-failed"
      [] OTHER -> "clean"

----------------------------------------------------------------------------
\* The metadata codec: merge_metadata and split_metadata (src/etunes.py).

\* Bounds of the codec's inputs: the longest sequence of children.
MaxChildren == 3

\* None, as a value of a mapping and as the result of dict.get for a key the
\* mapping lacks.
Null == "<null>"

\* The attribute names, and the values a child may hold for each: strings,
\* the empty string among them, and None.
MetaKeys == {"a", "b"}
MetaValues(k) == IF k = "a" THEN {"x", "y", "", Null} ELSE {"z"}

\* The attribute mappings: every key is held with one of its values or not
\* at all.
Mappings ==
    UNION {{f \in [K -> UNION {MetaValues(k) : k \in K}] :
               \A k \in K : f[k] \in MetaValues(k)} : K \in SUBSET MetaKeys}

\* The arguments of split_metadata.
ChildrenSeqs == SeqsUpTo(Mappings, MaxChildren)

\* d.get(k)
DictGet(d, k) == IF k \in DOMAIN d THEN d[k] ELSE Null

\* Python truthiness of a value: None and the empty string are false.
TruthyValue(v) == v \notin {Null, ""}

\* A merge in which the parent's value wins over the child's.
MergeParentWins(p, c) ==
    [k \in DOMAIN p \cup DOMAIN c |-> IF k \in DOMAIN p THEN p[k] ELSE c[k]]

\* Lines 127-133: merge_metadata.
MergeMetadata(p, c) ==
    [k \in DOMAIN p \cup DOMAIN c |-> IF k \in DOMAIN c THEN c[k] ELSE p[k]]

\* Lines 136-138: all_keys.
AllKeys(cs) == UNION {DOMAIN cs[i] : i \in DOMAIN cs}

\* Line 140: counts[val], the number of children whose get(key) is val.
Counts(cs, key, val) ==
    Cardinality({i \in DOMAIN cs : DictGet(cs[i], key) = val})

\* A vote that takes a strict majority only.
QualifiesStrictly(cs, key, val) ==
    TruthyValue(val) /\ Counts(cs, key, val) * 2 > Len(cs)

\* A vote that promotes the empty string and None as well.
QualifiesFalsy(cs, key, val) == Counts(cs, key, val) * 2 >= Len(cs)

\* Line 142: the test a value passes to become the parent's.
Qualifies(cs, key, val) ==
    TruthyValue(val) /\ Counts(cs, key, val) * 2 >= Len(cs)

\* Lines 141-144: the Counter is iterated in the order its keys were first
\* seen, which is child order; the first value that qualifies is taken.  The
\* result is the index of the first child that holds it, 0 if there is none.
FirstQualifying(cs, key) ==
    LET Q == {i \in DOMAIN cs : Qualifies(cs, key, DictGet(cs[i], key))} IN
    IF Q = {} THEN 0 ELSE CHOOSE i \in Q : \A j \in Q : i <= j

\* Lines 139-145: parent.
SplitParent(cs) ==
    [key \in {k \in AllKeys(cs) : FirstQualifying(cs, k) # 0} |->
        cs[FirstQualifying(cs, key)][key]]

\* A diff that drops the empty string as well as None.
KeepsOnlyTruthy(child, p, key) ==
    TruthyValue(child[key]) /\ child[key] # DictGet(p, key)

\* Line 150: whether new_child keeps the child's key.
Keeps(child, p, key) == child[key] # DictGet(p, key)

\* A diff that is the whole child.
NewChildWhole(child, p) == child

\* Lines 148-151: new_child.
NewChild(child, p) ==
    [key \in {k \in DOMAIN child : Keeps(child, p, k)} |-> child[key]]

\* Lines 146-152: new_children.
SplitChildren(cs, p) == [i \in DOMAIN cs |-> NewChild(cs[i], p)]

----------------------------------------------------------------------------
\* The messages of the fatal errors of Git.

\* The note of git_not_installed_error (lines 123-130).
GitNote == "Git must be installed in order to use eTunes"

\* The notes and hints an Error carries besides its message:
\* git_not_installed_error wraps an OSError with the note; run_and_check
\* (lines 68-72) raises a plain error for a non-zero exit status, and no
\* caller wraps it; ensure_working_tree_clean adds a hint.
ErrorExtras(reason) ==
    CASE reason = "git-not-installed" -> {GitNote}
      [] reason = "dirty-working-tree" -> {"you should clean up manually"}
      [] OTHER -> {}

----------------------------------------------------------------------------
\* The initial states.

\* The program before an invocation, in store s.
InitIn(s) ==
    /\ libFile = s.lib
    /\ lastIdFile = s.lastId
    /\ procFile = s.lock[1]
    /\ procs = [p \in Pids |-> s.lock[2]]
    /\ foreignDirty = s.dirty
    /\ tmpFile = NoTmp
    /\ head = libFile
    /\ gitLog = s.log
    /\ albumFile = Album("complete", "A")
    /\ albumTmp = NoAlbum
    /\ task = "none"
    /\ pc = "idle"
    /\ ret = "none"
    /\ query = NoQuery
    /\ options = EmptyMap
    /\ newOptions = EmptyMap
    /\ errors = <<>>
    /\ response = NoResponse
    /\ stdout = <<>>
    /\ fatal = NoFatal
    /\ exitCode = Running
    /\ nextId = 0
    /\ albumNew = ""
    /\ lib0 = libFile
    /\ log0 = gitLog
    /\ lastId0 = lastIdFile
    /\ id0 = 0
    /\ held = {}
    /\ album0 = albumFile
    /\ errorsAt639 = FALSE
    /\ lastIdWrite = "none"

\* The codec has not been called.
CodecIdle ==
    /\ children = <<>>
    /\ parent = EmptyMap
    /\ newChildren = <<>>
    /\ merged = <<>>
    /\ codecPc = "unused"
    /\ reParent = EmptyMap
    /\ reChildren = <<>>
    /\ albumDoc = NoDoc
    /\ readBack = NoRead

\* task_init is not what runs.
TaskInitIdle ==
    /\ initPath = "none"
    /\ dirExists = TRUE
    /\ dominating = FALSE
    /\ gitDir = TRUE
    /\ gitignore = TRUE
    /\ preexisting = FALSE

\* No invocations run side by side.
ConcIdle == execs = <<>>

Init ==
    /\ \E s \in InitStores : InitIn(s)
    /\ CodecIdle
    /\ TaskInitIdle
    /\ ConcIdle

----------------------------------------------------------------------------
\* How an invocation ends.

\* A main that returns 0 after an Error.
AbortWithZero(f) ==
    /\ pc' = "done"
    /\ fatal' = f
    /\ exitCode' = 0

\* An Error reaches main (lines 794-801): message on stderr, exit code 1.
Abort(f) ==
    /\ pc' = "done"
    /\ fatal' = f
    /\ exitCode' = 1

\* Any other exception reaches main (lines 802-804): traceback naming the
\* exception, exit code 1.
Crash(exception) == Abort(Fatal(exception))

\* handle_args returns (lines 792-793): exit code 0.
Finish ==
    /\ pc' = "done"
    /\ fatal' = fatal
    /\ exitCode' = 0

\* The history recorded when an invocation starts.
Begin ==
    /\ lib0' = libFile
    /\ log0' = gitLog
    /\ lastId0' = lastIdFile
    /\ id0' = nextId
    /\ album0' = albumFile
    /\ errorsAt639' = FALSE
    /\ lastIdWrite' = "none"
    /\ UNCHANGED held

----------------------------------------------------------------------------
\* task_query and execute_query.

\* task_query (lines 665-691) with a query that parses and matches the schema:
\* execute_query is entered.
TaskQuery(q) ==
    /\ pc = "idle"
    /\ task' = "query"
    /\ pc' = "clean"
    /\ query' = q
    /\ Begin
    /\ UNCHANGED <<envVars, ret, options, newOptions, errors, response,
                   stdout, fatal, exitCode, nextId, albumNew, otherVars>>

\* task_query with text that is not JSON or does not match QUERY_SCHEMA
\* (lines 684-690, validate_query): fatal.
TaskQueryMalformed ==
    /\ pc = "idle"
    /\ task' = "query"
    /\ Abort(Fatal("malformed-query"))
    /\ Begin
    /\ UNCHANGED <<envVars, ret, query, options, newOptions, errors,
                   response, stdout, nextId, albumNew, otherVars>>

\* Line 560, ensure_working_tree_clean.
EnsureClean ==
    /\ pc = "clean"
    /\ \E fault \in GitFaults :
          LET r == IsWorkingTreeClean(WorkingTreeDirty, fault) IN
          CASE r = "clean" -> pc' = "load" /\ UNCHANGED <<fatal, exitCode>>
            [] r = "dirty" -> Abort(Fatal("dirty-working-tree"))
            [] OTHER -> Abort(Fatal(r))
    /\ UNCHANGED <<envVars, histVars, ret, query, options, newOptions,
                   errors, response, stdout, nextId, albumNew, otherVars>>

\* Lines 561-564: file_to_yaml, validate_library_options; the work directory
\* is created if need be.
LoadLibrary ==
    /\ pc = "load"
    /\ IF LoadError(libFile) = "none"
       THEN /\ options' = libFile.opts
            /\ pc' = "lock"
            /\ UNCHANGED <<fatal, exitCode>>
       ELSE /\ Abort(Fatal(LoadError(libFile)))
            /\ UNCHANGED options
    /\ UNCHANGED <<envVars, histVars, ret, query, newOptions, errors,
                   response, stdout, nextId, albumNew, otherVars>>

\* Lines 565-583: the process file is read and checked.  A missing file
\* (OSError), a malformed one (ValueError) and a dead pid (NoSuchProcess) are
\* passed over; errors and response are initialized.
LockCheck ==
    /\ pc = "lock"
    /\ IF LockHeld(procFile, procs)
       THEN /\ Abort([reason |-> "concurrent-transaction",
                      pid |-> procFile.pid])
            /\ UNCHANGED <<errors, response>>
       ELSE /\ pc' = "concurrency"
            /\ errors' = <<>>
            /\ response' = NoResponse
            /\ UNCHANGED <<fatal, exitCode>>
    /\ UNCHANGED <<envVars, histVars, ret, query, options, newOptions,
                   stdout, nextId, albumNew, otherVars>>

\* Lines 584-599: the optimistic concurrency check.  A last-id file that
\* cannot be read (OSError) is passed over; what is read is stripped.
ConcurrencyCheck ==
    /\ pc = "concurrency"
    /\ pc' = "options"
    /\ errors' =
          IF /\ Truthy(query.lastId)
             /\ lastIdFile # NoFile
             /\ query.lastId # lastIdFile
          THEN Append(errors, Err("intervening-transaction", "", "", ""))
          ELSE errors
    /\ UNCHANGED <<envVars, histVars, ret, query, options, newOptions,
                   response, stdout, fatal, exitCode, nextId, albumNew, otherVars>>

\* Line 642: the library file is written if new_options differs from
\* options; otherwise execute_query goes on at line 652.
PersistPc(new, old) == IF new # old THEN "yaml_open" ELSE "final"

\* Lines 600-640: the library's values are decoded (fatal if one fails), the
\* option requests are applied to new_options, and the response's options
\* are read back from new_options (KeyError for a name it does not hold).
\* With errors, return_query_result is called at line 640.
ProcessOptions ==
    /\ pc = "options"
    /\ LET new == IF query.hasOptions
                  THEN ApplyRequests(options, query.options) ELSE options
           errs == IF query.hasOptions
                   THEN errors \o RequestErrors(query.options)
                   ELSE errors
       IN
       IF LibraryDecodeFails(options)
       THEN /\ Abort(Fatal("library-malformed-value"))
            /\ UNCHANGED <<newOptions, errors, response, ret, errorsAt639>>
       ELSE IF query.hasOptions /\ ResponseKeyError(new, query.options)
       THEN /\ Crash("KeyError")
            /\ newOptions' = new
            /\ errors' = errs
            /\ UNCHANGED <<response, ret, errorsAt639>>
       ELSE LET all == IF query.hasOptions
                       THEN errs \o UnknownErrors(UnknownOptions(query.options))
                       ELSE errs
            IN /\ newOptions' = new
               /\ errors' = all
               /\ response' =
                     IF query.hasOptions
                     THEN [response EXCEPT
                              !.hasOptions = TRUE,
                              !.options = OptionsResponse(new, query.options)]
                     ELSE response
               /\ errorsAt639' = (all # <<>>)
               /\ IF all # <<>>
                  THEN pc' = "rqr_respond" /\ ret' = "line 640"
                  ELSE pc' = PersistPc(new, options) /\ UNCHANGED ret
               /\ UNCHANGED <<fatal, exitCode>>
    /\ UNCHANGED <<envVars, task, lib0, log0, lastId0, id0, held, album0,
                   lastIdWrite, query, options, stdout, nextId, albumNew, otherVars>>

----------------------------------------------------------------------------
\* yaml_to_file (lines 106-121), called at line 644.

\* How an I/O call ends: it succeeds, raises FileNotFoundError, or raises
\* another exception.
IoOutcomes == {"ok", "enoent", "oserror"}

\* A dump that writes to the target itself.
DumpInPlace(target, tmp, content) == [target |-> content, tmp |-> tmp]

\* What yaml.dump writes to: the temporary file gets the content, the target
\* is left alone.
DumpTo(target, tmp, content) == [target |-> target, tmp |-> content]

\* A failure inside yaml_to_file.  FileNotFoundError becomes an Error (lines
\* 119-121), which execute_query records (lines 646-651) before going on at
\* line 652; any other exception is caught by nobody before main.  The with
\* statement removes the temporary file.
YamlFails(o) ==
    /\ tmpFile' = NoTmp
    /\ IF o = "enoent"
       THEN /\ errors' = Append(errors, Err("os-error", "", "", "library"))
            /\ pc' = "final"
            /\ UNCHANGED <<fatal, exitCode>>
       ELSE /\ Crash("OSError")
            /\ UNCHANGED errors

\* Lines 112-117: the temporary file is created and yaml.dump writes the
\* document to it, first a part of it (pc = "yaml_open"), then the rest.
YamlDump ==
    /\ pc \in {"yaml_open", "yaml_dump"}
    /\ \E o \in IoOutcomes :
          IF o = "ok"
          THEN LET content == IF pc = "yaml_open"
                              THEN [kind |-> "partial", opts |-> newOptions]
                              ELSE Map(newOptions)
                   w == DumpTo(libFile, tmpFile, content)
               IN /\ libFile' = w.target
                  /\ tmpFile' = w.tmp
                  /\ pc' = IF pc = "yaml_open" THEN "yaml_dump"
                           ELSE "yaml_rename"
                  /\ UNCHANGED <<errors, fatal, exitCode>>
          ELSE YamlFails(o) /\ UNCHANGED libFile
    /\ UNCHANGED <<lastIdFile, procFile, procs, head, gitLog, foreignDirty,
                   albumFile, albumTmp, histVars, ret, query, options,
                   newOptions, response, stdout, nextId, albumNew, otherVars>>

\* How line 118 and the end of the with statement end: both succeed, the
\* rename fails in one of the two ways, or the rename succeeds and closing
\* the temporary file, whose name is gone by now, raises FileNotFoundError.
RenameOutcomes == IoOutcomes \cup {"close-enoent"}

\* Line 118: the temporary file is renamed to the library file; then the
\* with statement ends, and line 645 sets partial.
YamlRename ==
    /\ pc = "yaml_rename"
    /\ \E o \in RenameOutcomes :
          CASE o = "ok" ->
                  /\ libFile' = tmpFile
                  /\ tmpFile' = NoTmp
                  /\ response' = [response EXCEPT !.partial = TRUE]
                  /\ pc' = "final"
                  /\ UNCHANGED <<errors, fatal, exitCode>>
            [] o = "close-enoent" ->
                  /\ libFile' = tmpFile
                  /\ YamlFails("enoent")
                  /\ UNCHANGED response
            [] OTHER ->
                  /\ YamlFails(o)
                  /\ UNCHANGED <<libFile, response>>
    /\ UNCHANGED <<lastIdFile, procFile, procs, head, gitLog, foreignDirty,
                   albumFile, albumTmp, histVars, ret, query, options,
                   newOptions, stdout, nextId, albumNew, otherVars>>

\* An end of execute_query that leaves partial as line 645 set it.
FinalKeepsPartial ==
    /\ pc = "final"
    /\ pc' = "rqr_respond"
    /\ ret' = "line 653"
    /\ UNCHANGED <<envVars, histVars, query, options, newOptions, errors,
                   response, stdout, fatal, exitCode, nextId, albumNew,
                   otherVars>>

\* Lines 652-653: partial is reset and return_query_result is called.
Final ==
    /\ pc = "final"
    /\ response' = [response EXCEPT !.partial = FALSE]
    /\ pc' = "rqr_respond"
    /\ ret' = "line 653"
    /\ UNCHANGED <<envVars, histVars, query, options, newOptions, errors,
                   stdout, fatal, exitCode, nextId, albumNew, otherVars>>

----------------------------------------------------------------------------
\* return_query_result (lines 540-557).

\* How the write of the last-id file ends: it succeeds, open raises OSError,
\* or open succeeds, truncating the file, and write raises OSError.
LastIdOutcomes == {"ok", "oserror", "write-oserror"}

\* An id generator that draws the same value every time.
RepeatedTransactionId(n) == "u1"

\* Line 541: the n-th uuid4 value; each differs from all drawn before it.
NewTransactionId(n) == TransactionIds[n + 1]

\* The content of the last-id file after the write: the new id and a line
\* break, which the reader strips (line 589); unchanged when open fails, and
\* empty when write fails.
LastIdWritten(old, id, outcome) ==
    CASE outcome = "ok" -> id
      [] outcome = "oserror" -> old
      [] OTHER -> ""

\* return_query_result returns to its caller: execute_query goes on at line
\* 641 after the call of line 640, and returns to main after that of line
\* 653.
Return ==
    IF ret = "line 653" THEN Finish
    ELSE pc' = PersistPc(newOptions, options) /\ UNCHANGED <<fatal, exitCode>>

\* Lines 541-555: a transaction id is drawn and written to the last-id file
\* (an OSError is recorded in the response's errors), success is computed
\* and the Response is written to standard output.
RqrRespond ==
    /\ pc = "rqr_respond"
    /\ nextId < Len(TransactionIds)
    /\ \E o \in LastIdOutcomes :
          LET errs == IF o = "ok" THEN errors
                      ELSE Append(errors, Err("os-error", "", "", "last-id"))
          IN /\ lastIdFile' =
                   LastIdWritten(lastIdFile, NewTransactionId(nextId), o)
             /\ lastIdWrite' = o
             /\ held' = IF o # "oserror"
                        THEN held \cup ({lastIdFile} \ {NoFile})
                        ELSE held
             /\ errors' = errs
             /\ stdout' = Append(stdout,
                                 [success |-> Success(errs),
                                  partial |-> response.partial,
                                  errors |-> errs,
                                  hasOptions |-> response.hasOptions,
                                  options |-> response.options])
             /\ IF Success(errs)
                THEN pc' = "rqr_commit" /\ UNCHANGED <<fatal, exitCode>>
                ELSE Return
    /\ nextId' = nextId + 1
    /\ UNCHANGED <<libFile, tmpFile, procFile, procs, head, gitLog,
                   foreignDirty, albumFile, albumTmp, task, lib0, log0,
                   lastId0, id0, album0, errorsAt639, ret, query, options,
                   newOptions, response, albumNew, otherVars>>

\* Line 553: the strings of the JSON document written for a Response, its
\* keys apart: the option values and the fields of the error records.
ResponseStrings(r) ==
    {r.options[i] : i \in DOMAIN r.options}
    \cup UNION {{r.errors[j].reason, r.errors[j].name, r.errors[j].value,
                 r.errors[j].file} : j \in DOMAIN r.errors}

\* How commit_working_tree ends: every command works, io.run raises OSError,
\* 'git add' or the check of the working tree fails, or 'git commit' fails.
CommitOutcomes == {"ok", "oserror", "add-fails", "commit-fails"}

\* Lines 556-557 and commit_working_tree (lines 528-535), optional=True:
\* everything is staged and, unless the tree is clean, committed.
RqrCommit ==
    /\ pc = "rqr_commit"
    /\ \E o \in CommitOutcomes :
          CASE o = "oserror" ->
                  Abort(Fatal("git-not-installed"))
                  /\ UNCHANGED <<head, gitLog, foreignDirty>>
            [] o = "add-fails" ->
                  Abort(Fatal("command-failed"))
                  /\ UNCHANGED <<head, gitLog, foreignDirty>>
            [] OTHER ->
                  IF NeedsCommit(TRUE, ~WorkingTreeDirty)
                  THEN IF o = "commit-fails"
                       THEN Abort(Fatal("command-failed"))
                            /\ UNCHANGED <<head, gitLog, foreignDirty>>
                       ELSE /\ head' = libFile
                            /\ foreignDirty' = FALSE
                            /\ gitLog' = Append(gitLog, CommitMessage(query))
                            /\ Return
                  ELSE Return /\ UNCHANGED <<head, gitLog, foreignDirty>>
    /\ UNCHANGED <<libFile, tmpFile, lastIdFile, procFile, procs, albumFile,
                   albumTmp, histVars, ret, query, options, newOptions,
                   errors, response, stdout, nextId, albumNew, otherVars>>

----------------------------------------------------------------------------
\* write_data_file (src/etunes.py, lines 112-125).

\* What dump writes to: the '.tmp' file gets the content, the target is left
\* alone.
DumpDataTo(target, tmp, content) == [target |-> target, tmp |-> content]

\* The metadata a caller may write.
AlbumData == {"A", "B"}

\* write_data_file is called with metadata d.
WriteDataFile(d) ==
    /\ pc = "idle"
    /\ task' = "album"
    /\ pc' = "wdf_open"
    /\ albumNew' = d
    /\ Begin
    /\ UNCHANGED <<envVars, ret, query, options, newOptions, errors,
                   response, stdout, fatal, exitCode, nextId, otherVars>>

\* Lines 121-124: open(tmp_filename, 'w') creates or truncates the '.tmp'
\* file and dump writes the document to it, first a part of it (pc =
\* "wdf_open"), then the rest.  No exception is handled in write_data_file: a
\* failure leaves the '.tmp' file as far as it was written.
WdfDump ==
    /\ pc \in {"wdf_open", "wdf_dump"}
    /\ \/ LET content == IF pc = "wdf_open"
                         THEN Album("partial", albumNew)
                         ELSE Album("complete", albumNew)
              w == DumpDataTo(albumFile, albumTmp, content)
          IN /\ albumFile' = w.target
             /\ albumTmp' = w.tmp
             /\ pc' = IF pc = "wdf_open" THEN "wdf_dump" ELSE "wdf_rename"
             /\ UNCHANGED <<fatal, exitCode>>
       \/ Crash("OSError") /\ UNCHANGED <<albumFile, albumTmp>>
    /\ UNCHANGED <<libFile, tmpFile, lastIdFile, procFile, procs, head,
                   gitLog, foreignDirty, histVars, ret, query, options,
                   newOptions, errors, response, stdout, nextId, albumNew, otherVars>>

\* Line 125: os.rename(tmp_filename, filename).
WdfRename ==
    /\ pc = "wdf_rename"
    /\ \/ /\ albumFile' = albumTmp
          /\ albumTmp' = NoAlbum
          /\ Finish
       \/ Crash("OSError") /\ UNCHANGED <<albumFile, albumTmp>>
    /\ UNCHANGED <<libFile, tmpFile, lastIdFile, procFile, procs, head,
                   gitLog, foreignDirty, histVars, ret, query, options,
                   newOptions, errors, response, stdout, nextId, albumNew, otherVars>>

----------------------------------------------------------------------------
\* The specification.

Next ==
    \/ \E q \in Queries : TaskQuery(q)
    \/ TaskQueryMalformed
    \/ EnsureClean
    \/ LoadLibrary
    \/ LockCheck
    \/ ConcurrencyCheck
    \/ ProcessOptions
    \/ YamlDump
    \/ YamlRename
    \/ Final
    \/ RqrRespond
    \/ RqrCommit
    \/ \E d \in AlbumData : WriteDataFile(d)
    \/ WdfDump
    \/ WdfRename

Spec == Init /\ [][Next]_vars

----------------------------------------------------------------------------
\* The codec on its own: split_metadata is applied to a sequence of
\* mappings, and merge_metadata to its result.

progVars == <<envVars, histVars, pc, ret, query, options, newOptions, errors,
              response, stdout, fatal, exitCode, nextId, albumNew, concVars>>

\* The store 'etunes init' leaves.
InitStore ==
    [lib |-> Map(DEFAULT_LIBRARY), lastId |-> NoFile, lock |-> NoLock,
     dirty |-> FALSE, log |-> InitCommits]

\* Album metadata files somebody wrote by hand, with a mapping under 'songs'
\* as read_album_metadata asks for: an empty one, one of strings, and one
\* with a value that is not a string.
HandmadeDocs ==
    {Doc(EmptyMap, "map", EmptyMap),
     Doc(("a" :> "x"), "map", ("b" :> "z")),
     Doc(("a" :> "x"), "map", ("b" :> Null))}

\* The codec starts with an argument for split_metadata or
\* write_album_metadata, or with a file for read_album_metadata.
CodecInit ==
    /\ InitIn(InitStore)
    /\ \/ /\ children \in ChildrenSeqs
          /\ codecPc = "start"
          /\ albumDoc = NoDoc
       \/ /\ children = <<>>
          /\ codecPc = "file"
          /\ albumDoc \in HandmadeDocs
    /\ parent = EmptyMap
    /\ newChildren = <<>>
    /\ merged = <<>>
    /\ reParent = EmptyMap
    /\ reChildren = <<>>
    /\ readBack = NoRead
    /\ TaskInitIdle
    /\ ConcIdle

\* split_metadata(children) (lines 135-153).
SplitMetadata ==
    /\ codecPc = "start"
    /\ parent' = SplitParent(children)
    /\ newChildren' = SplitChildren(children, SplitParent(children))
    /\ codecPc' = "split"
    /\ UNCHANGED <<children, merged, reParent, reChildren, albumDoc,
                   readBack, progVars, initVars>>

\* merge_metadata(parent, new_children[i]) for every i (lines 127-133), as
\* read_album_metadata calls it (line 199).
MergeAll ==
    /\ codecPc = "split"
    /\ merged' = [i \in DOMAIN newChildren |->
                     MergeMetadata(parent, newChildren[i])]
    /\ codecPc' = "merged"
    /\ UNCHANGED <<children, parent, newChildren, reParent, reChildren,
                   albumDoc, readBack, progVars, initVars>>

\* split_metadata(merged) (lines 135-153): the merged mappings are split
\* again.
SplitAgain ==
    /\ codecPc = "merged"
    /\ reParent' = SplitParent(merged)
    /\ reChildren' = SplitChildren(merged, SplitParent(merged))
    /\ codecPc' = "resplit"
    /\ UNCHANGED <<children, parent, newChildren, merged, albumDoc,
                   readBack, progVars, initVars>>

\* write_album_metadata (lines 202-210) for an album whose songs hold the
\* metadata children: split_metadata, and write_data_file with a document
\* that holds new_children, a list, under 'songs'.  The YAML writer keeps
\* the kinds of the nodes and the values.
WriteAlbumMetadata ==
    /\ codecPc = "start"
    /\ parent' = SplitParent(children)
    /\ newChildren' = SplitChildren(children, SplitParent(children))
    /\ albumDoc' = Doc(parent', "list", newChildren')
    /\ codecPc' = "written"
    /\ UNCHANGED <<children, merged, reParent, reChildren, readBack,
                   progVars, initVars>>

\* read_album_metadata (lines 168-200) on a document with the keys 'album'
\* and 'songs'.  Both values must be mappings (line 177) of strings (lines
\* 181-190); then line 198 iterates songs_metadata, a mapping, which gives
\* its keys, and merge_metadata (line 199) calls items() on a key, a string:
\* AttributeError.  Only an empty mapping of songs gives an Album.
ReadResult(doc) ==
    CASE doc.kind # "map" -> Read("MalformedMetadataError", <<>>)
      [] \E k \in DOMAIN doc.album : doc.album[k] = Null ->
            Read("MalformedMetadataError", <<>>)
      [] \E k \in DOMAIN doc.songs : doc.songs[k] = Null ->
            Read("MalformedMetadataError", <<>>)
      [] doc.songs # EmptyMap -> Read("AttributeError", <<>>)
      [] OTHER -> Read("ok", <<>>)

\* read_album_metadata is called for the file.
ReadAlbumMetadata ==
    /\ codecPc \in {"written", "file"}
    /\ readBack' = ReadResult(albumDoc)
    /\ codecPc' = IF codecPc = "written" THEN "read" ELSE "read_file"
    /\ UNCHANGED <<children, parent, newChildren, merged, reParent,
                   reChildren, albumDoc, progVars, initVars>>

CodecNext ==
    \/ SplitMetadata
    \/ MergeAll
    \/ SplitAgain
    \/ WriteAlbumMetadata
    \/ ReadAlbumMetadata

CodecSpec == CodecInit /\ [][CodecNext]_vars

----------------------------------------------------------------------------
\* 'etunes init': task_init (lines 268-328).

\* The path arguments: none (the current directory), a directory, a file
\* named etunes.yml, a file of another name.
InitPaths == {"cwd", "directory", "file etunes.yml", "file other.yml"}

\* No file at the path task_init writes the library file to.
Missing == Content("missing")

\* A library file somebody wrote before.
EarlierLibrary == Map("media-path" :> "abc")

\* The file systems task_init may find.  target is the file at the library
\* file path; tracked says whether Git's HEAD holds it; dirty, whether
\* something else is uncommitted.  A directory that does not exist holds no
\* file and is named by a file path; only a file of a repository is tracked.
InitTaskStores ==
    {t \in [path : InitPaths, dir : BOOLEAN,
            target : {Missing, EarlierLibrary}, dominating : BOOLEAN,
            gitDir : BOOLEAN, gitignore : BOOLEAN, tracked : BOOLEAN,
            dirty : BOOLEAN] :
        /\ ~t.dir => /\ t.target = Missing
                     /\ t.path \in {"file etunes.yml", "file other.yml"}
                     /\ ~t.gitignore
        /\ t.tracked => (t.gitDir /\ t.target # Missing)
        /\ ~t.gitDir => ~t.dirty}

TaskInitInit ==
    /\ \E t \in InitTaskStores :
          /\ InitIn([lib |-> t.target, lastId |-> NoFile, lock |-> NoLock,
                     dirty |-> t.dirty \/ (t.gitDir /\ t.target # Missing
                                            /\ ~t.tracked),
                     log |-> IF t.gitDir THEN <<"Earlier commit">>
                             ELSE <<>>])
          /\ initPath = t.path
          /\ dirExists = t.dir
          /\ dominating = t.dominating
          /\ gitDir = t.gitDir
          /\ gitignore = t.gitignore
    /\ preexisting = FALSE
    /\ CodecIdle
    /\ ConcIdle

queryVars == <<tmpFile, lastIdFile, procFile, procs, albumFile, albumTmp,
               ret, query, options, newOptions, errors, response, stdout,
               nextId, albumNew, lastId0, id0, held, album0, errorsAt639,
               lastIdWrite, execs>>

\* Lines 290-291: locate_dominating_file looks for DEFAULT_LIBRARY_FILENAME in
\* the library directory and above it, whatever the name of the library
\* file: the target counts only when that is its name.
PreexistingLibraryFile(path, target, found) ==
    found \/ (path # "file other.yml" /\ target # Missing)

\* Lines 275-291: the library file path is worked out, the library directory
\* is made if need be (OSError is fatal), and the dominating files are
\* looked up.
TaskInitStart ==
    /\ pc = "idle"
    /\ task' = "init"
    /\ lib0' = libFile
    /\ log0' = gitLog
    /\ preexisting' = PreexistingLibraryFile(initPath, libFile, dominating)
    /\ \/ /\ dirExists' = TRUE
          /\ pc' = "init_git"
          /\ UNCHANGED <<fatal, exitCode>>
       \/ /\ ~dirExists
          /\ Abort(Fatal("mkdir-failed"))
          /\ UNCHANGED dirExists
    /\ UNCHANGED <<libFile, head, gitLog, foreignDirty, queryVars, codecVars,
                   initPath, dominating, gitDir, gitignore>>

\* commit_working_tree(message) with optional = False, in a working tree
\* where the library file and whatever else is there get staged.
CommitAll(message, next) ==
    \E o \in CommitOutcomes :
       CASE o = "oserror" ->
               Abort(Fatal("git-not-installed"))
               /\ UNCHANGED <<head, gitLog, foreignDirty>>
         [] o \in {"add-fails", "commit-fails"} ->
               Abort(Fatal("command-failed"))
               /\ UNCHANGED <<head, gitLog, foreignDirty>>
         [] OTHER ->
               IF NeedsCommit(FALSE, ~(libFile' # head \/ foreignDirty))
               THEN /\ head' = libFile'
                    /\ foreignDirty' = FALSE
                    /\ gitLog' = Append(gitLog, message)
                    /\ next
               ELSE next /\ UNCHANGED <<head, gitLog, foreignDirty>>

\* Lines 292-302: without a .git, 'git init' and a commit of what is there.
TaskInitGit ==
    /\ pc = "init_git"
    /\ UNCHANGED <<libFile, queryVars, codecVars, task, lib0, log0, initPath,
                   dirExists, dominating, gitignore, preexisting>>
    /\ IF gitDir
       THEN /\ pc' = "init_gitignore"
            /\ UNCHANGED <<head, gitLog, foreignDirty, fatal, exitCode,
                           gitDir>>
       ELSE \E fault \in GitFaults :
               CASE fault = "oserror" ->
                       /\ Abort(Fatal("git-not-installed"))
                       /\ UNCHANGED <<head, gitLog, foreignDirty, gitDir>>
                 [] fault = "nonzero" ->
                       /\ Abort(Fatal("command-failed"))
                       /\ UNCHANGED <<head, gitLog, foreignDirty, gitDir>>
                 [] OTHER ->
                       /\ gitDir' = TRUE
                       /\ CommitAll("Add pre-existing files",
                                    /\ pc' = "init_gitignore"
                                    /\ UNCHANGED <<fatal, exitCode>>)

\* ensure_working_tree_clean inside task_init: the Error it raises, or
\* "clean".
InitEnsureClean(fault) ==
    LET r == IsWorkingTreeClean(WorkingTreeDirty, fault) IN
    IF r = "dirty" THEN "dirty-working-tree" ELSE r

\* Lines 303-313: without a .gitignore, one is written and committed.  An
\* OSError of the write is caught by nobody before main.
TaskInitGitignore ==
    /\ pc = "init_gitignore"
    /\ UNCHANGED <<libFile, queryVars, codecVars, task, lib0, log0, initPath,
                   dirExists, dominating, gitDir, preexisting>>
    /\ IF gitignore
       THEN /\ pc' = "init_library"
            /\ UNCHANGED <<head, gitLog, foreignDirty, fatal, exitCode,
                           gitignore>>
       ELSE \E fault \in GitFaults :
               IF InitEnsureClean(fault) # "clean"
               THEN /\ Abort(Fatal(InitEnsureClean(fault)))
                    /\ UNCHANGED <<head, gitLog, foreignDirty, gitignore>>
               ELSE \/ /\ Crash("OSError")
                       /\ UNCHANGED <<head, gitLog, foreignDirty, gitignore>>
                    \/ /\ gitignore' = TRUE
                       /\ CommitAll("Add .gitignore for '/work/'",
                                    /\ pc' = "init_library"
                                    /\ UNCHANGED <<fatal, exitCode>>)

\* Lines 314-328: unless a library file was found at line 290, the default
\* options are written to the library file path by yaml_to_file and
\* committed.
TaskInitLibrary ==
    /\ pc = "init_library"
    /\ IF preexisting
       THEN /\ Finish
            /\ UNCHANGED <<libFile, head, gitLog, foreignDirty>>
       ELSE \E fault \in GitFaults :
               IF InitEnsureClean(fault) # "clean"
               THEN /\ Abort(Fatal(InitEnsureClean(fault)))
                    /\ UNCHANGED <<libFile, head, gitLog, foreignDirty>>
               ELSE \E o \in RenameOutcomes :
                       CASE o = "ok" ->
                               /\ libFile' = Map(DEFAULT_LIBRARY)
                               /\ CommitAll(
                                     "Create library.yml with default settings",
                                     Finish)
                         [] o = "close-enoent" ->
                               /\ libFile' = Map(DEFAULT_LIBRARY)
                               /\ Abort(Fatal("yaml-write-failed"))
                               /\ UNCHANGED <<head, gitLog, foreignDirty>>
                         [] o = "enoent" ->
                               /\ Abort(Fatal("yaml-write-failed"))
                               /\ UNCHANGED <<libFile, head, gitLog,
                                              foreignDirty>>
                         [] OTHER ->
                               /\ Crash("OSError")
                               /\ UNCHANGED <<libFile, head, gitLog,
                                              foreignDirty>>
    /\ UNCHANGED <<queryVars, codecVars, task, lib0, log0, initVars>>

TaskInitNext ==
    \/ TaskInitStart
    \/ TaskInitGit
    \/ TaskInitGitignore
    \/ TaskInitLibrary

TaskInitSpec == TaskInitInit /\ [][TaskInitNext]_vars

----------------------------------------------------------------------------
\* Two invocations of 'etunes query' that run at the same time in one
\* library directory.  Each runs execute_query (lines 559-653) in a process of
\* its own, with its own local variables and its own standard output; the
\* library file, the work directory and the repository are shared.  A step is
\* what one process does around one access to what is shared.

\* The pids of the two processes, and the create time of both.
QueryPids == {8, 9}
QueryCreateTime == 20

\* The queries of the two: one option set to a value, with the id the store
\* holds as last-id.
ConcQueries ==
    {q \in Queries :
        /\ q.hasOptions
        /\ Len(q.options) = 1
        /\ q.options[1].value # Absent
        /\ q.description = Absent
        /\ q.lastId = "T0"}

\* The stores the two find: the library file of 'etunes init', a last-id
\* file, and no process file, a stale one, or one that a third process holds.
ConcStores ==
    {[lib |-> Map(DEFAULT_LIBRARY), lastId |-> "T0", lock |-> k,
      dirty |-> FALSE, log |-> InitCommits] :
        k \in {NoLock, <<ProcRecord(7, 10), Dead>>, <<ProcRecord(7, 10), 10>>}}

\* An invocation that main has just started with query q.  lockChecks counts
\* the reads of the process file, wrote says whether the library file was
\* written, and sawDone whether the other invocation had ended when this one
\* began.
Exec(q) ==
    [pc |-> "clean", query |-> q, options |-> EmptyMap,
     newOptions |-> EmptyMap, errors |-> <<>>, response |-> NoResponse,
     stdout |-> <<>>, fatal |-> NoFatal, exitCode |-> Running,
     ret |-> "none", lockChecks |-> 0, wrote |-> FALSE, sawDone |-> FALSE]

ConcInit ==
    /\ \E s \in ConcStores : InitIn(s)
    /\ execs \in [QueryPids -> {Exec(q) : q \in ConcQueries}]
    /\ CodecIdle
    /\ TaskInitIdle

\* What psutil.Process finds (line 572): the processes of the store, and the
\* two invocations as long as they run.
ProcessTable ==
    [p \in DOMAIN procs \cup QueryPids |->
        IF p \in QueryPids
        THEN IF execs[p].pc = "done" THEN Dead ELSE QueryCreateTime
        ELSE procs[p]]

\* A lock check that records the checking process in the process file.
ProcessFileClaimed(pf, pid, ctime) == ProcRecord(pid, ctime)

\* Lines 565-578: the process file after process pid has checked it.  The
\* file is opened for reading (line 567) and nothing else is done to it.
ProcessFileAfter(pf, pid, ctime) == pf

\* An Error or another exception reaches main: exit code 1.
Aborted(x, f) == [x EXCEPT !.pc = "done", !.fatal = f, !.exitCode = 1]

\* return_query_result returns: to line 641 after the call of line 640, to
\* main after that of line 653.
Returned(x) ==
    IF x.ret = "line 653" THEN [x EXCEPT !.pc = "done", !.exitCode = 0]
    ELSE [x EXCEPT !.pc = "persist"]

\* What no step of the two changes.
concFrame == <<tmpFile, procs, albumFile, albumTmp, histVars, pc, ret, query,
               options, newOptions, errors, response, stdout, fatal,
               exitCode, albumNew, codecVars, initVars>>

\* Line 560, ensure_working_tree_clean.
ExecEnsureClean(e) ==
    /\ execs[e].pc = "clean"
    /\ \E fault \in GitFaults :
          LET r == IsWorkingTreeClean(WorkingTreeDirty, fault)
              x == [execs[e] EXCEPT
                       !.sawDone = \E o \in QueryPids \ {e} :
                                      execs[o].pc = "done"]
          IN execs' = [execs EXCEPT ![e] =
                CASE r = "clean" -> [x EXCEPT !.pc = "load"]
                  [] r = "dirty" -> Aborted(x, Fatal("dirty-working-tree"))
                  [] OTHER -> Aborted(x, Fatal(r))]
    /\ UNCHANGED <<libFile, lastIdFile, procFile, head, gitLog, foreignDirty,
                   nextId, concFrame>>

\* Lines 561-564: the library file is loaded and validated.
ExecLoadLibrary(e) ==
    /\ execs[e].pc = "load"
    /\ execs' = [execs EXCEPT ![e] =
          IF LoadError(libFile) = "none"
          THEN [@ EXCEPT !.options = libFile.opts, !.pc = "lock"]
          ELSE Aborted(@, Fatal(LoadError(libFile)))]
    /\ UNCHANGED <<libFile, lastIdFile, procFile, head, gitLog, foreignDirty,
                   nextId, concFrame>>

\* Lines 565-583: the process file is read and checked.
ExecLockCheck(e) ==
    /\ execs[e].pc = "lock"
    /\ procFile' = ProcessFileAfter(procFile, e, QueryCreateTime)
    /\ LET x == [execs[e] EXCEPT !.lockChecks = @ + 1] IN
       execs' = [execs EXCEPT ![e] =
          IF LockHeld(procFile, ProcessTable)
          THEN Aborted(x, [reason |-> "concurrent-transaction",
                           pid |-> procFile.pid])
          ELSE [x EXCEPT !.pc = "concurrency", !.errors = <<>>,
                         !.response = NoResponse]]
    /\ UNCHANGED <<libFile, lastIdFile, head, gitLog, foreignDirty, nextId,
                   concFrame>>

\* Lines 584-640: the last-id file is read and compared, the library's values
\* are decoded, the option requests are applied and answered.
ExecCheckOptions(e) ==
    /\ execs[e].pc = "concurrency"
    /\ LET x == execs[e]
           q == x.query
           errs0 == IF /\ Truthy(q.lastId)
                       /\ lastIdFile # NoFile
                       /\ q.lastId # lastIdFile
                    THEN <<Err("intervening-transaction", "", "", "")>>
                    ELSE <<>>
           new == IF q.hasOptions THEN ApplyRequests(x.options, q.options)
                  ELSE x.options
           errs == IF q.hasOptions
                   THEN errs0 \o RequestErrors(q.options)
                        \o UnknownErrors(UnknownOptions(q.options))
                   ELSE errs0
       IN execs' = [execs EXCEPT ![e] =
             IF LibraryDecodeFails(x.options)
             THEN Aborted(x, Fatal("library-malformed-value"))
             ELSE IF q.hasOptions /\ ResponseKeyError(new, q.options)
             THEN Aborted(x, Fatal("KeyError"))
             ELSE [x EXCEPT
                      !.newOptions = new,
                      !.errors = errs,
                      !.response =
                         IF q.hasOptions
                         THEN [@ EXCEPT
                                  !.hasOptions = TRUE,
                                  !.options = OptionsResponse(new, q.options)]
                         ELSE @,
                      !.ret = IF errs # <<>> THEN "line 640" ELSE @,
                      !.pc = IF errs # <<>> THEN "rqr_respond"
                             ELSE "persist"]]
    /\ UNCHANGED <<libFile, lastIdFile, procFile, head, gitLog, foreignDirty,
                   nextId, concFrame>>

\* Lines 642-653: if new_options differs from options, yaml_to_file writes it
\* to a temporary file of its own and renames that to the library file; then
\* return_query_result is called.
ExecPersist(e) ==
    /\ execs[e].pc = "persist"
    /\ LET x == [execs[e] EXCEPT !.pc = "rqr_respond", !.ret = "line 653"]
           failed == [x EXCEPT !.errors =
                         Append(@, Err("os-error", "", "", "library"))]
       IN IF x.newOptions = x.options
          THEN execs' = [execs EXCEPT ![e] = x] /\ UNCHANGED libFile
          ELSE \E o \in RenameOutcomes :
                  CASE o = "ok" ->
                          /\ libFile' = Map(x.newOptions)
                          /\ execs' = [execs EXCEPT ![e] =
                                          [x EXCEPT !.wrote = TRUE]]
                    [] o = "close-enoent" ->
                          /\ libFile' = Map(x.newOptions)
                          /\ execs' = [execs EXCEPT ![e] =
                                          [failed EXCEPT !.wrote = TRUE]]
                    [] o = "enoent" ->
                          /\ execs' = [execs EXCEPT ![e] = failed]
                          /\ UNCHANGED libFile
                    [] OTHER ->
                          /\ execs' = [execs EXCEPT ![e] =
                                          Aborted(x, Fatal("OSError"))]
                          /\ UNCHANGED libFile
    /\ UNCHANGED <<lastIdFile, procFile, head, gitLog, foreignDirty, nextId,
                   concFrame>>

\* Lines 541-555: return_query_result writes a new id to the last-id file
\* and the Response to the standard output of its process.
ExecRespond(e) ==
    /\ execs[e].pc = "rqr_respond"
    /\ nextId < Len(TransactionIds)
    /\ \E o \in LastIdOutcomes :
          LET x == execs[e]
              errs == IF o = "ok" THEN x.errors
                      ELSE Append(x.errors, Err("os-error", "", "", "last-id"))
              y == [x EXCEPT
                       !.errors = errs,
                       !.stdout = Append(@, [success |-> Success(errs),
                                             partial |-> x.response.partial,
                                             errors |-> errs,
                                             hasOptions |-> x.response.hasOptions,
                                             options |-> x.response.options])]
          IN /\ lastIdFile' =
                   LastIdWritten(lastIdFile, NewTransactionId(nextId), o)
             /\ execs' = [execs EXCEPT ![e] =
                   IF Success(errs) THEN [y EXCEPT !.pc = "rqr_commit"]
                   ELSE Returned(y)]
    /\ nextId' = nextId + 1
    /\ UNCHANGED <<libFile, procFile, head, gitLog, foreignDirty, concFrame>>

\* Lines 556-557 and commit_working_tree (lines 528-535), optional=True.
ExecCommit(e) ==
    /\ execs[e].pc = "rqr_commit"
    /\ LET x == execs[e] IN
       \E o \in CommitOutcomes :
          CASE o = "oserror" ->
                  /\ execs' = [execs EXCEPT ![e] =
                                  Aborted(x, Fatal("git-not-installed"))]
                  /\ UNCHANGED <<head, gitLog, foreignDirty>>
            [] o = "add-fails" ->
                  /\ execs' = [execs EXCEPT ![e] =
                                  Aborted(x, Fatal("command-failed"))]
                  /\ UNCHANGED <<head, gitLog, foreignDirty>>
            [] OTHER ->
                  IF NeedsCommit(TRUE, ~WorkingTreeDirty)
                  THEN IF o = "commit-fails"
                       THEN /\ execs' = [execs EXCEPT ![e] =
                                  Aborted(x, Fatal("command-failed"))]
                            /\ UNCHANGED <<head, gitLog, foreignDirty>>
                       ELSE /\ head' = libFile
                            /\ foreignDirty' = FALSE
                            /\ gitLog' = Append(gitLog, CommitMessage(x.query))
                            /\ execs' = [execs EXCEPT ![e] = Returned(x)]
                  ELSE /\ execs' = [execs EXCEPT ![e] = Returned(x)]
                       /\ UNCHANGED <<head, gitLog, foreignDirty>>
    /\ UNCHANGED <<libFile, lastIdFile, procFile, nextId, concFrame>>

ConcNext ==
    \E e \in QueryPids :
       \/ ExecEnsureClean(e)
       \/ ExecLoadLibrary(e)
       \/ ExecLockCheck(e)
       \/ ExecCheckOptions(e)
       \/ ExecPersist(e)
       \/ ExecRespond(e)
       \/ ExecCommit(e)

ConcSpec == ConcInit /\ [][ConcNext]_vars

----------------------------------------------------------------------------
\* Queries that give several values: execute_query as above, run with option
\* lists in which a name gets more than one well-formed value.

\* The queries: up to MaxOpts requests, each a recognized name with a value that
\* decodes, or the deduplication threshold to read.
OverrideQueries ==
    {[description |-> Absent, lastId |-> Absent, hasOptions |-> TRUE,
      options |-> o] :
        o \in SeqsUpTo(
                 {r \in [name : {"deduplication-threshold", "media-path"},
                         value : {Absent, "0.5", "0.75", "abc", "xyz"}] :
                     IF r.name = "media-path"
                     THEN r.value \in {"abc", "xyz"}
                     ELSE r.value \in {Absent, "0.5", "0.75"}},
                 MaxOpts)}

OverrideNext ==
    \/ \E q \in OverrideQueries : TaskQuery(q)
    \/ EnsureClean
    \/ LoadLibrary
    \/ LockCheck
    \/ ConcurrencyCheck
    \/ ProcessOptions
    \/ YamlDump
    \/ YamlRename
    \/ Final
    \/ RqrRespond
    \/ RqrCommit

OverrideSpec == Init /\ [][OverrideNext]_vars

----------------------------------------------------------------------------
\* Vocabulary of the properties.

\* The fatal errors execute_query raises before it reads the option requests
\* (lines 560-608), and the one of task_query.
FatalBeforeOptions ==
    {"malformed-query", "dirty-working-tree", "command-failed",
     "git-not-installed", "library-unreadable", "library-not-map",
     "library-non-string-value", "library-unexpected-key",
     "concurrent-transaction", "library-malformed-value"}

\* A query ran to the end of execute_query and main returned 0.
QueryReturned == task = "query" /\ pc = "done" /\ exitCode = 0

HasError(errs, reason) == \E i \in DOMAIN errs : errs[i].reason = reason

LastResponse == stdout[Len(stdout)]

\* The process file names a live process, and how far its real create time is
\* from the recorded one.
NamesLiveProcess ==
    /\ procFile.kind = "record"
    /\ procFile.pid \in DOMAIN procs
    /\ procs[procFile.pid] # Dead
CreateTimeGap ==
    IF procFile.ctime >= procs[procFile.pid]
    THEN procFile.ctime - procs[procFile.pid]
    ELSE procs[procFile.pid] - procFile.ctime

\* Nothing of the store differs from what the invocation found.
NothingPersisted ==
    /\ libFile = lib0
    /\ lastIdFile = lastId0
    /\ gitLog = log0
    /\ head = lib0
    /\ tmpFile = NoTmp

----------------------------------------------------------------------------
\* C1.  A query whose errors list is non-empty after the concurrency check
\* and the option processing leaves the library file with the content it had
\* before the execution.  The code does not return after the call of line
\* 640, and writes new_options at line 644 all the same.
C1_ErrorsPersistNothing ==
    (task = "query" /\ pc = "done" /\ errorsAt639) => libFile = lib0

\* C2.  A query whose last-id is present, whatever string it is, and differs
\* from the id the last-id file records gets an intervening-transaction error,
\* and every Response it emits has success = false.  The code skips the check
\* for the empty string (line 586).
C2_LastIdMismatchDetected ==
    (/\ task = "query"
     /\ query.lastId # Absent
     /\ lastId0 # NoFile
     /\ query.lastId # lastId0)
    => /\ pc \in {"options", "rqr_respond", "yaml_open", "final"}
          => HasError(errors, "intervening-transaction")
       /\ \A i \in DOMAIN stdout :
             /\ HasError(stdout[i].errors, "intervening-transaction")
             /\ ~stdout[i].success

\* C3.  A query that names an unrecognized option ends with a Response that
\* holds an unknown-option error for that name and success = false, and with
\* the library file unchanged.  The code raises KeyError at line 631 before
\* it appends the error.
C3_UnknownOptionReported ==
    \A i \in DOMAIN query.options :
       (/\ task = "query"
        /\ pc = "done"
        /\ fatal.reason \notin FatalBeforeOptions
        /\ query.options[i].name \notin DOMAIN DEFAULT_LIBRARY)
       => /\ stdout # <<>>
          /\ \E j \in DOMAIN LastResponse.errors :
                /\ LastResponse.errors[j].reason = "unknown-option"
                /\ LastResponse.errors[j].name = query.options[i].name
          /\ ~LastResponse.success
          /\ libFile = lib0

\* C4.  A request with a recognized name and no value, in a query that gives
\* that name no value elsewhere and names only recognized options, is
\* answered with the value the library file sets, or the default when it sets
\* none, without error or failure.  The code raises KeyError at line 631 when
\* the library file does not set the option.
C4_ReadAnswersCurrentOrDefault ==
    \A i \in DOMAIN query.options :
       (/\ task = "query"
        /\ \A j \in DOMAIN query.options :
              /\ query.options[j].name \in DOMAIN DEFAULT_LIBRARY
              /\ query.options[j].name = query.options[i].name
                    => query.options[j].value = Absent)
       => /\ fatal.reason # "KeyError"
          /\ response.hasOptions
                => response.options[i]
                      = GetOption(lib0.opts, query.options[i].name)
          /\ \A j \in DOMAIN errors :
                errors[j].name # query.options[i].name

----------------------------------------------------------------------------
\* C5.  A process file that is missing, malformed, names a pid with no live
\* process, or names a live pid whose real create time differs from the
\* recorded one by the tolerance or more never aborts execute_query: the
\* concurrency check is reached with errors empty, partial false, nothing
\* written and no fatal error, as without a process file.
StaleProcessFile ==
    \/ procFile.kind \in {"missing", "malformed"}
    \/ /\ procFile.kind = "record"
       /\ \/ procFile.pid \notin DOMAIN procs
          \/ procs[procFile.pid] = Dead
          \/ CreateTimeGap >= CreateTimeEpsilon

C5_StaleProcessFilePassedOver ==
    (task = "query" /\ StaleProcessFile)
    => /\ fatal.reason # "concurrent-transaction"
       /\ pc = "concurrency"
             => /\ errors = <<>>
                /\ response = NoResponse
                /\ fatal = NoFatal
                /\ exitCode = Running
                /\ stdout = <<>>
                /\ NothingPersisted

\* The concurrency check is reached past a process file that names a live
\* process whose create time is off by exactly the tolerance.
C5_Witness ==
    /\ task = "query"
    /\ pc = "concurrency"
    /\ NamesLiveProcess
    /\ CreateTimeGap = CreateTimeEpsilon

\* C6.  When the process file names a live process whose real create time
\* matches the recorded one within the tolerance, execute_query does not get
\* past the check of the process file: the invocation is over in that step
\* with the fatal concurrent-transaction error that names the pid (unless an
\* earlier fatal error ended it), the library file and the last-id file are
\* unchanged, no Response is written and no commit is made.
FatalBeforeLock ==
    {"malformed-query", "dirty-working-tree", "command-failed",
     "git-not-installed", "library-unreadable", "library-not-map",
     "library-non-string-value", "library-unexpected-key"}

C6_HeldProcessFileIsFatal ==
    (/\ task = "query"
     /\ NamesLiveProcess
     /\ CreateTimeGap < CreateTimeEpsilon
     /\ pc \notin {"clean", "load", "lock"})
    => /\ pc = "done"
       /\ exitCode = 1
       /\ \/ fatal = [reason |-> "concurrent-transaction",
                      pid |-> procFile.pid]
          \/ fatal.reason \in FatalBeforeLock
       /\ stdout = <<>>
       /\ NothingPersisted

C6_Witness ==
    /\ task = "query"
    /\ pc = "done"
    /\ NamesLiveProcess
    /\ CreateTimeGap < CreateTimeEpsilon
    /\ fatal = [reason |-> "concurrent-transaction", pid |-> procFile.pid]

\* C7.  The last-id file holds an id drawn by this invocation that differs
\* from everything the file held before.
FreshLastId ==
    /\ \E k \in (id0 + 1)..nextId : lastIdFile = TransactionIds[k]
    /\ lastIdFile \notin held
    /\ lastIdFile # lastId0

C8_SuccessIffNoErrors ==
    /\ \A i \in DOMAIN stdout :
          stdout[i].success <=> (stdout[i].errors = <<>>)
    /\ pc = "rqr_commit" => (stdout # <<>> /\ LastResponse.success)
    /\ (\E i \in DOMAIN stdout : ~stdout[i].success)
          => (gitLog = log0 /\ head = lib0 /\ pc # "rqr_commit")

\* A query that changed the library file and reported errors has ended.
C8_Witness ==
    /\ QueryReturned
    /\ ~LastResponse.success
    /\ LastResponse.errors # <<>>
    /\ libFile # lib0
    /\ gitLog = log0

\* C9.  A query that ends with success and changed no option value of the
\* library file has added no commit; one that changed the library file has
\* added exactly one commit, whose message is the query's description, or
\* "Unnamed query" when it has none.
C9_CommitOnlyOnChange ==
    (QueryReturned /\ LastResponse.success)
    => IF libFile = lib0
       THEN gitLog = log0
       ELSE /\ Len(gitLog) = Len(log0) + 1
            /\ SubSeq(gitLog, 1, Len(log0)) = log0
            /\ gitLog[Len(gitLog)] =
                  IF query.description = Absent THEN "Unnamed query"
                  ELSE query.description
            /\ head = libFile

\* A query with a description changed the library file and was committed.
C9_Witness ==
    /\ QueryReturned
    /\ LastResponse.success
    /\ libFile # lib0
    /\ query.description = "Set options"
    /\ gitLog[Len(gitLog)] = "Set options"
    /\ Len(gitLog) = Len(log0) + 1

\* C10.  At every point of a write of the library file or of an album
\* metadata file, a failed write included, the target holds its complete old
\* content or the complete new content; the target changes only by the rename
\* of the completely written temporary file.
C10_WritesAreAtomic ==
    /\ [](/\ libFile = lib0 \/ libFile = Map(newOptions)
          /\ albumFile = album0 \/ albumFile = Album("complete", albumNew))
    /\ [][/\ libFile' # libFile
             => /\ pc = "yaml_rename"
                /\ tmpFile = Map(newOptions)
                /\ libFile' = tmpFile
          /\ albumFile' # albumFile
             => /\ pc = "wdf_rename"
                /\ albumTmp = Album("complete", albumNew)
                /\ albumFile' = albumTmp]_vars

\* The temporary file is partly written and the library file is as it was.
C10_Witness ==
    /\ pc = "yaml_dump"
    /\ tmpFile.kind = "partial"
    /\ newOptions # lib0.opts
    /\ libFile = lib0

----------------------------------------------------------------------------
\* Vocabulary of the codec's properties.

\* split_metadata has returned.
SplitDone == codecPc \in {"split", "merged", "resplit"}

\* The children that hold value v for key k.
Holders(k, v) ==
    {i \in DOMAIN children : k \in DOMAIN children[i] /\ children[i][k] = v}

\* The non-empty values held for k by at least half of the children.
MajorityValues(k) ==
    {v \in MetaValues(k) \ {"", Null} :
        Holders(k, v) # {} /\ Cardinality(Holders(k, v)) * 2 >= Len(children)}

\* The first child that holds v for k.
FirstHolder(k, v) == CHOOSE i \in Holders(k, v) : \A j \in Holders(k, v) : i <= j

\* Child i keeps its own value for k in its diff.
KeepsOwn(i, k) ==
    /\ k \in DOMAIN newChildren[i]
    /\ newChildren[i][k] = children[i][k]

\* C11.  Round trip: for every sequence C of mappings, mappings that lack keys
\* other mappings have included, split_metadata(C) = (P, D) satisfies
\* merge_metadata(P, D[i]) = C[i] for every i.  A child that lacks a key the
\* parent holds gets the parent's value.
C11_RoundTrip ==
    codecPc = "merged" => \A i \in DOMAIN children : merged[i] = children[i]

\* C12.  Majority rule: for every key k for which some non-empty value is
\* held by at least half of the children, Parent[k] is such a value, the one
\* that occurs first in child order, and every child whose value for k
\* differs from Parent[k] keeps its own value for k in its diff.
C12_MajorityRule ==
    SplitDone =>
       \A k \in MetaKeys :
          MajorityValues(k) # {} =>
             /\ k \in DOMAIN parent
             /\ parent[k] \in MajorityValues(k)
             /\ \A v \in MajorityValues(k) :
                   FirstHolder(k, parent[k]) <= FirstHolder(k, v)
             /\ \A i \in DOMAIN children :
                   (k \in DOMAIN children[i] /\ children[i][k] # parent[k])
                      => KeepsOwn(i, k)

\* Two values are held by half of the children each; the first one is the
\* parent's, and the other child keeps its own.
C12_Witness ==
    /\ SplitDone
    /\ children = <<("a" :> "y"), ("a" :> "x")>>
    /\ parent = ("a" :> "y")
    /\ newChildren[2] = ("a" :> "x")

----------------------------------------------------------------------------
\* C15.  Every fatal condition of a query (query not matching the schema,
\* working tree not clean, library file unreadable, not a map of strings or
\* with an unrecognized key, library value that fails to decode) ends the
\* invocation before anything is changed: the library file, the last-id file
\* and the commits are as before, no Response is on standard output, and
\* main returns 1.  A store with such a library file, or with a dirty working
\* tree, lets no query get past the step that finds it.
FatalConditions ==
    {"malformed-query", "dirty-working-tree", "library-unreadable",
     "library-not-map", "library-non-string-value", "library-unexpected-key",
     "library-malformed-value"}

C15_FatalBeforeMutation ==
    task = "query" =>
       /\ (pc = "done" /\ fatal.reason \in FatalConditions)
             => /\ NothingPersisted
                /\ stdout = <<>>
                /\ exitCode = 1
       /\ (foreignDirty /\ pc # "clean")
             => (pc = "done" /\ exitCode = 1)
       /\ (lib0.kind # "map" /\ pc \notin {"clean", "load"})
             => (pc = "done" /\ exitCode = 1)
       /\ (/\ lib0.kind = "map"
           /\ "deduplication-threshold" \in DOMAIN lib0.opts
           /\ lib0.opts["deduplication-threshold"] \notin {"0.75", "0.5"}
           /\ pc \notin {"clean", "load", "lock", "concurrency", "options"})
             => (pc = "done" /\ exitCode = 1)

\* A library value failed to decode after the last-id check had found an
\* intervening transaction: nothing was written.
C15_Witness ==
    /\ task = "query"
    /\ pc = "done"
    /\ fatal.reason = "library-malformed-value"
    /\ errors # <<>>
    /\ stdout = <<>>
    /\ lastIdFile = lastId0

----------------------------------------------------------------------------
\* C16.  task_init never overwrites an existing library file: whatever the
\* path argument (a directory, or a file path with any file name), a file
\* that exists at the library file path is left with its content.  The code
\* looks for a file named etunes.yml (line 290), not for the file it is about
\* to write, and writes over a file of another name.
C16_InitNeverOverwrites ==
    (task = "init" /\ lib0 # Missing) => libFile = lib0

----------------------------------------------------------------------------
\* C17.  Every failure of a call of Git, a missing binary (OSError) and a
\* non-zero exit status of a command alike, ends the invocation with an Error
\* whose messages hold the note that Git must be installed.  A non-zero exit
\* status is reported as "command failed" without the note.
C17_GitFailuresCarryNote ==
    fatal.reason \in {"git-not-installed", "command-failed"}
       => GitNote \in ErrorExtras(fatal.reason)

----------------------------------------------------------------------------
\* C18.  Whenever a query has written the library file and its last Response
\* has success = false, that Response has partial = true.  Line 652 sets
\* partial to false before every final Response.
C18_PartialAfterWrite ==
    (QueryReturned /\ libFile # lib0 /\ ~LastResponse.success)
       => LastResponse.partial

\* C19.  Every Response execute_query emits, after errors and at its end,
\* has partial = false.
C19_PartialAlwaysFalse ==
    \A i \in DOMAIN stdout : ~stdout[i].partial

\* A query wrote the library file, so that line 645 had set partial, and
\* reported success.
C19_Witness ==
    /\ QueryReturned
    /\ libFile # lib0
    /\ LastResponse.success
    /\ ~LastResponse.partial

\* C20.  The Response of a query carries the TransactionId the query wrote
\* to the last-id file.  The Response holds success, partial, errors and
\* options, and no id.
C20_ResponseCarriesId ==
    (QueryReturned /\ lastIdWrite = "ok")
       => lastIdFile \in ResponseStrings(LastResponse)

----------------------------------------------------------------------------
\* C21.  Every execution of a query goes through validating, lock checking,
\* concurrency checking, mutating, committing and responding in this order,
\* each at most once: a query that returns without a fatal error has written
\* exactly one Response, no commit is made after a Response, and the library
\* file is never written after a Response.  The code responds before it
\* commits (lines 553-557), and after the call of line 640 it goes on to
\* write the library file and to respond a second time.
C21_PhasesInOrderOnce ==
    /\ [](QueryReturned => Len(stdout) = 1)
    /\ [][task = "query" /\ stdout # <<>>
             => libFile' = libFile /\ gitLog' = gitLog]_vars

----------------------------------------------------------------------------
\* Vocabulary of the properties of the two invocations.

\* Both invocations have ended, and each began before the other ended.
BothDone == \A e \in QueryPids : execs[e].pc = "done"
Overlapped == \A e \in QueryPids : ~execs[e].sawDone

\* C22.  No step of a query writes, creates or removes the process file, so
\* that two invocations that overlap never raise the concurrent-transaction
\* error against each other, and each checks the process file once, before
\* it changes anything, and never again before the commit.
C22_ProcessFileNeverWritten ==
    /\ [][procFile' = procFile]_vars
    /\ [](\A e \in DOMAIN execs :
             /\ execs[e].fatal.reason = "concurrent-transaction"
                   => execs[e].fatal.pid \notin QueryPids
             /\ execs[e].lockChecks <= 1
             /\ execs[e].pc \in {"persist", "rqr_respond", "rqr_commit"}
                   => execs[e].lockChecks = 1
             /\ (execs[e].wrote \/ execs[e].stdout # <<>>)
                   => execs[e].lockChecks = 1)

\* The two overlapped, both got past the check of the process file, and both
\* wrote the library file.
C22_Witness ==
    /\ BothDone
    /\ Overlapped
    /\ \A e \in QueryPids :
          /\ execs[e].lockChecks = 1
          /\ execs[e].wrote
          /\ execs[e].fatal = NoFatal

----------------------------------------------------------------------------
----------------------------------------------------------------------------
\* C24.  Idempotence of the normalization: for every sequence C of mappings,
\* with (P, D) = split_metadata(C) and C' the sequence of the
\* merge_metadata(P, D[i]), split_metadata(C') returns the same (P, D), ties
\* of the vote going to the value that occurs first in child order.
C24_SplitIdempotent ==
    codecPc = "resplit" => (reParent = parent /\ reChildren = newChildren)

\* Two values tie for "a", the first one wins; the first child gets "b" from
\* the parent, so that what is split again differs from what was split.
C24_Witness ==
    /\ codecPc = "resplit"
    /\ children = <<("a" :> "y"), ("a" :> "x" @@ "b" :> "z")>>
    /\ parent = ("a" :> "y" @@ "b" :> "z")
    /\ merged # children
    /\ reParent = parent
    /\ reChildren = <<EmptyMap, ("a" :> "x")>>

----------------------------------------------------------------------------
\* C25.  Clean in, clean out: a query that starts from a clean working tree
\* (ensure_working_tree_clean lets no other query through, and the library
\* file was as HEAD has it) and returns without a fatal error leaves the
\* working tree clean, so that the next query is not rejected by
\* ensure_working_tree_clean.  After the
\* call of line 640 the library file is written and, success being false,
\* never committed; the same happens when the last-id file cannot be written.
C25_CleanInCleanOut ==
    (QueryReturned /\ head = lib0) => ~WorkingTreeDirty

----------------------------------------------------------------------------
\* C26.  Whenever a Response with success = true has been written for a
\* query, the invocation ends with exit code 0 and with the query's change of
\* the library file recorded in a commit: a success Response is never
\* followed by a failure of the same query.  The Response is written (line
\* 553) before commit_working_tree runs (line 556), whose failure is fatal.
C26_SuccessIsFinal ==
    (/\ task = "query"
     /\ pc = "done"
     /\ \E i \in DOMAIN stdout : stdout[i].success)
       => /\ exitCode = 0
          /\ fatal = NoFatal
          /\ head = libFile
          /\ libFile # lib0 => Len(gitLog) = Len(log0) + 1

----------------------------------------------------------------------------
\* C27.  Of two invocations that overlap and carry the same last-id, the id
\* the last-id file held when both started, at most one ends with a Response
\* with success = true; the other reports intervening-transaction or fails.
\* The last-id file is read at lines 586-589 and written only at the end, in
\* return_query_result, and nothing is locked in between: both pass the
\* check, and the second write of the library file, made from the options
\* its process loaded at the start, undoes the update of the first.
C27_AtMostOneSuccess ==
    (/\ execs # <<>>
     /\ BothDone
     /\ Overlapped
     /\ \A e \in QueryPids : execs[e].query.lastId = lastId0)
       => \E e \in QueryPids :
             \/ execs[e].fatal # NoFatal
             \/ execs[e].stdout = <<>>
             \/ ~execs[e].stdout[Len(execs[e].stdout)].success

----------------------------------------------------------------------------
\* C28.  After a query whose last Response has success = true, the library
\* file holds the options it held before, overridden by the requests of the
\* query that give a value, in list order, so that the last value given for
\* a name is the one it holds; every other option has its previous value,
\* and no key is there or missing but for the names given a value.
C28_OptionsOverridden ==
    (task = "query" /\ pc = "done" /\ stdout # <<>> /\ LastResponse.success)
       => LET reqs == query.options
              Valued(k) == {i \in DOMAIN reqs :
                               reqs[i].name = k /\ reqs[i].value # Absent}
              Latest(k) == CHOOSE i \in Valued(k) :
                              \A j \in Valued(k) : j <= i
              named == {reqs[i].name : i \in {j \in DOMAIN reqs :
                                                 reqs[j].value # Absent}}
          IN /\ libFile.kind = "map"
             /\ DOMAIN libFile.opts = DOMAIN lib0.opts \cup named
             /\ \A k \in DOMAIN libFile.opts :
                   libFile.opts[k] = IF k \in named
                                     THEN reqs[Latest(k)].value
                                     ELSE lib0.opts[k]

\* The threshold is given two values, and the library file, which did not
\* set it, holds the second one and its media path as before.
C28_Witness ==
    /\ QueryReturned
    /\ LastResponse.success
    /\ query.options = <<[name |-> "deduplication-threshold", value |-> "0.75"],
                         [name |-> "deduplication-threshold", value |-> "0.5"]>>
    /\ lib0 = Map("media-path" :> "abc")
    /\ libFile = Map("deduplication-threshold" :> "0.5" @@ "media-path" :> "abc")

----------------------------------------------------------------------------
\* C29.  Album file round trip: for every album whose songs hold mappings of
\* strings, the file write_album_metadata writes is accepted by
\* read_album_metadata, which returns as many songs, with the same metadata,
\* in the same order.  The writer puts a list under 'songs' (line 207) and
\* the reader rejects whatever is not a mapping there (line 177).
C29_AlbumRoundTrip ==
    (/\ codecPc = "read"
     /\ \A i \in DOMAIN children : \A k \in DOMAIN children[i] :
           children[i][k] # Null)
       => /\ readBack.status = "ok"
          /\ Len(readBack.songs) = Len(children)
          /\ \A i \in DOMAIN children : readBack.songs[i] = children[i]

----------------------------------------------------------------------------
\* C30.  A request whose value fails to decode does not abort the query: once
\* execute_query has come to the option requests, a malformed-option-value
\* error that names the option and the value is recorded, the other requests
\* of the query are processed as well, and the query ends with exit code 0
\* and a Response with success = false that answers every request.  The
\* second loop (lines 629-631) raises KeyError when another request names an
\* option new_options does not hold, and the write that follows the call of
\* line 640 can fail.
C30_MalformedValueNotFatal ==
    (/\ task = "query"
     /\ pc = "done"
     /\ fatal.reason \notin FatalBeforeOptions
     /\ \E i \in DOMAIN query.options :
           /\ query.options[i].name \in DOMAIN DEFAULT_LIBRARY
           /\ query.options[i].value # Absent
           /\ ~DecodeOk(query.options[i].name, query.options[i].value))
       => /\ exitCode = 0
          /\ stdout # <<>>
          /\ ~LastResponse.success
          /\ Len(LastResponse.options) = Len(query.options)
          /\ \A i \in DOMAIN query.options :
                (/\ query.options[i].name \in DOMAIN DEFAULT_LIBRARY
                 /\ query.options[i].value # Absent
                 /\ ~DecodeOk(query.options[i].name, query.options[i].value))
                   => \E j \in DOMAIN LastResponse.errors :
                         LastResponse.errors[j] =
                            Err("malformed-option-value",
                                query.options[i].name,
                                query.options[i].value, "")

====
